---- MODULE Spec2Model ----
(***************************************************************************)
(* Model of the friendly-mcp-tools capability gateway:                     *)
(*   - process startup (config.py, server.py, tools.py),                   *)
(*   - the gh command builders and the process executor                    *)
(*     (git_cli_tools/git_cli_services.py),                                *)
(*   - the query dispatcher (fabric_rti_tools/fabric_rti_services.py).     *)
(***************************************************************************)
EXTENDS Integers, Sequences, FiniteSets, TLC

VARIABLES
    environ,      \* the process environment (os.environ after load_dotenv)
    flags,        \* config.ENABLE_* module constants
    pc,           \* position of the __main__ block of server.py
    phase,        \* lifecycle phase of the process
    warmupCalls,  \* number of run_warmup_query() invocations so far
    registry,     \* names of the tools added with mcp.add_tool
    call          \* the tool call being served, or the idle marker

vars == <<environ, flags, pc, phase, warmupCalls, registry, call>>

-----------------------------------------------------------------------------
(* Python values *)

\* Python's None where a string is expected.
None == "<None>"

\* Truthiness of an Optional[str]: None and "" are falsy.
StrTruthy(s) == s # None /\ s # ""

-----------------------------------------------------------------------------
(* config.py *)

FlagKeys == {"ENABLE_DATA_TOOLS", "ENABLE_FABRIC_RTI_TOOLS",
             "ENABLE_GIT_CLI_TOOLS", "ENABLE_INSTRUCTION_TOOLS"}

\* Raw values an ENABLE_* variable is given in the environment.
EnvBoolVals == {None, "true", "True", "false"}

\* Raw values of CLUSTER_URL and DATABASE_NAME.
EnvStrVals == {None, "", "set"}

Environments ==
    [ENABLE_DATA_TOOLS : EnvBoolVals, ENABLE_FABRIC_RTI_TOOLS : EnvBoolVals,
     ENABLE_GIT_CLI_TOOLS : EnvBoolVals, ENABLE_INSTRUCTION_TOOLS : EnvBoolVals,
     CLUSTER_URL : EnvStrVals, DATABASE_NAME : EnvStrVals]

\* str.lower() on the strings that occur as flag values.
lower(s) == IF s = "True" THEN "true"
            ELSE IF s = "False" THEN "false"
            ELSE s

\* os.getenv(key, default)
getenv(env, key, default) == IF env[key] = None THEN default ELSE env[key]

\* getenv_bool(key, default=False): os.getenv(key, str(default)).lower() == "true"
getenv_bool(env, key) == lower(getenv(env, key, "False")) = "true"

NoFlags == [k \in FlagKeys |-> FALSE]

-----------------------------------------------------------------------------
(* fabric_rti_tools/fabric_rti_services.py *)

\* Longest query text, in characters.
MaxQueryLen == 4

\* Most rows in a result table.
MaxRows == 2

\* A query text is a sequence of characters from this alphabet.
QueryChars == {"-", " ", "\n", "a"}

RECURSIVE SeqsUpTo(_, _)
\* All sequences over S of length at most n.
SeqsUpTo(S, n) ==
    IF n = 0 THEN {<<>>}
    ELSE LET shorter == SeqsUpTo(S, n - 1)
         IN  shorter \cup {Append(q, c) : q \in {r \in shorter : Len(r) = n - 1}, c \in S}

Queries == SeqsUpTo(QueryChars, MaxQueryLen)

\* Values of the query_language argument a caller passes.
QueryLanguages == {None, "sql", "kql"}

\* Rows of a primary result; ColumnName is the rank of the column's name.
ResultRows == [ColumnName : 1..2]

ResultTables == SeqsUpTo(ResultRows, MaxRows)

\* Faults client.execute raises.
BackendFaults == {"KustoServiceError", "KustoNetworkError"}

\* What client.execute does: raise, or return a response whose
\* primary_results holds no table or one table.
BackendResponses ==
    [kind : {"raise"}, exc : BackendFaults, primary : {<<>>}]
    \cup [kind : {"result"}, exc : {""}, primary : {<<>>} \cup {<<t>> : t \in ResultTables}]

\* end_time - start_time
ElapsedVals == {0, 2}

isspace(c) == c \in {" ", "\n"}

RECURSIVE lstrip(_)
lstrip(s) == IF s # <<>> /\ isspace(Head(s)) THEN lstrip(Tail(s)) ELSE s

RECURSIVE rstrip(_)
rstrip(s) == IF s # <<>> /\ isspace(s[Len(s)]) THEN rstrip(SubSeq(s, 1, Len(s) - 1)) ELSE s

strip(s) == rstrip(lstrip(s))

RECURSIVE firstline(_)
\* The characters of s before its first line break.
firstline(s) == IF s = <<>> \/ Head(s) = "\n" THEN <<>> ELSE <<Head(s)>> \o firstline(Tail(s))

\* str.splitlines(): here only the first line matters; "" has no line.
splitlines(s) == IF s = <<>> THEN <<>> ELSE <<firstline(s)>>

\* _detect_query_language testing that the first line starts with "--".
_detect_query_language_startswith(query) ==
    LET lines == splitlines(lstrip(query))
    IN  IF lines # <<>> /\ Len(lines[1]) >= 2 /\ SubSeq(lines[1], 1, 2) = <<"-", "-">>
        THEN "sql" ELSE "kql"

\* _detect_query_language(query)
_detect_query_language(query) ==
    LET lines == splitlines(lstrip(query))
    IN  IF lines # <<>> /\ strip(lines[1]) = <<"-", "-">> THEN "sql" ELSE "kql"

\* _run_query with the backend call wrapped in a try that returns no rows.
_run_query_swallowing_faults(query, query_language, resp, elapsed) ==
    LET lang == IF StrTruthy(query_language) THEN query_language
                ELSE _detect_query_language(query)
    IN  IF resp.kind = "raise" \/ resp.primary = <<>>
        THEN [raised |-> FALSE, exc |-> "", query |-> query, query_language |-> lang,
              data |-> <<>>, elapsed_seconds |-> elapsed]
        ELSE [raised |-> FALSE, exc |-> "", query |-> query, query_language |-> lang,
              data |-> resp.primary[1], elapsed_seconds |-> elapsed]

\* _run_query(query, query_language) against a backend that answers resp
\* after elapsed seconds.
_run_query(query, query_language, resp, elapsed) ==
    LET lang == IF StrTruthy(query_language) THEN query_language
                ELSE _detect_query_language(query)
    IN  IF resp.kind = "raise"
        THEN [raised |-> TRUE, exc |-> resp.exc, query |-> query, query_language |-> lang,
              data |-> <<>>, elapsed_seconds |-> 0]
        ELSE IF resp.primary = <<>>
        THEN [raised |-> TRUE, exc |-> "IndexError", query |-> query, query_language |-> lang,
              data |-> <<>>, elapsed_seconds |-> 0]
        ELSE [raised |-> FALSE, exc |-> "", query |-> query, query_language |-> lang,
              data |-> resp.primary[1], elapsed_seconds |-> elapsed]

WarmupQuery == <<"S", "E", "L", "E", "C", "T", " ", "1">>

\* run_warmup_query(): TRUE when it returns, FALSE when it raises.
run_warmup_query(resp, elapsed) == ~ _run_query(WarmupQuery, "sql", resp, elapsed).raised

\* ImportRaises with the DATABASE_NAME test dropped.
ImportRaises_cluster_only(env) == ~ StrTruthy(env["CLUSTER_URL"])

\* The module-level check of fabric_rti_services: TRUE when the import raises.
ImportRaises(env) ==
    ~ StrTruthy(env["CLUSTER_URL"]) \/ ~ StrTruthy(env["DATABASE_NAME"])

-----------------------------------------------------------------------------
(* tools.py *)

DataTools == {"generate_columnar_data", "generate_row_data"}

InstructionTools == {"get_instructions_convert_psql_to_rtitsql"}

\* The tool functions fabric_rti_services defines.
FabricRtiTools == {"fabric_rti_run_query_and_count_records",
                   "fabric_rti_run_query_and_get_results",
                   "fabric_rti_get_materialized_view_schema"}

GitCliTools == {"git_issue_list", "git_issue_view", "git_pr_list",
                "git_pr_view", "git_pr_diff"}

\* The tools of the group a flag enables: the functions of its module.
GroupTools(k) ==
    CASE k = "ENABLE_DATA_TOOLS" -> DataTools
      [] k = "ENABLE_INSTRUCTION_TOOLS" -> InstructionTools
      [] k = "ENABLE_FABRIC_RTI_TOOLS" -> FabricRtiTools
      [] k = "ENABLE_GIT_CLI_TOOLS" -> GitCliTools

\* register_tools with the version-control tools added whatever their flag.
register_tools_ungated_git(f) ==
    (IF f["ENABLE_DATA_TOOLS"] THEN DataTools ELSE {})
    \cup (IF f["ENABLE_INSTRUCTION_TOOLS"] THEN InstructionTools ELSE {})
    \cup (IF f["ENABLE_FABRIC_RTI_TOOLS"]
          THEN {"fabric_rti_run_query_and_count_records",
                "fabric_rti_get_materialized_view_schema"}
          ELSE {})
    \cup GitCliTools

\* register_tools(mcp): the names passed to mcp.add_tool.
register_tools(f) ==
    (IF f["ENABLE_DATA_TOOLS"] THEN DataTools ELSE {})
    \cup (IF f["ENABLE_INSTRUCTION_TOOLS"] THEN InstructionTools ELSE {})
    \cup (IF f["ENABLE_FABRIC_RTI_TOOLS"]
          THEN {"fabric_rti_run_query_and_count_records",
                "fabric_rti_get_materialized_view_schema"}
          ELSE {})
    \cup (IF f["ENABLE_GIT_CLI_TOOLS"] THEN GitCliTools ELSE {})

\* initialize_tools with the warmup run whatever the flag.
WarmupEnabled_always(f) == TRUE

\* The condition under which initialize_tools() warms the backend up.
WarmupEnabled(f) == f["ENABLE_FABRIC_RTI_TOOLS"]

-----------------------------------------------------------------------------
(* server.py: process startup *)

Idle == [tool |-> "none"]

Init ==
    /\ environ \in Environments
    /\ flags = NoFlags
    /\ pc = "import_config"
    /\ phase = "UNINITIALIZED"
    /\ warmupCalls = 0
    /\ registry = {}
    /\ call = Idle

\* import config: the ENABLE_* constants are read from the environment.
LoadFlags ==
    /\ pc = "import_config"
    /\ flags' = [k \in FlagKeys |-> getenv_bool(environ, k)]
    /\ pc' = "initialize_tools"
    /\ phase' = "FLAGS_LOADED"
    /\ UNCHANGED <<environ, warmupCalls, registry, call>>

\* initialize_tools(): with the query backend enabled, import
\* fabric_rti_services (which raises without CLUSTER_URL/DATABASE_NAME) and
\* run the warmup query; an exception leaves __main__ and ends the process.
InitializeTools ==
    /\ pc = "initialize_tools"
    /\ IF ~ WarmupEnabled(flags)
       THEN /\ pc' = "register_tools"
            /\ UNCHANGED <<phase, warmupCalls>>
       ELSE IF ImportRaises(environ)
       THEN /\ pc' = "failed"
            /\ UNCHANGED <<phase, warmupCalls>>
       ELSE \E resp \in BackendResponses, elapsed \in ElapsedVals :
            /\ warmupCalls' = warmupCalls + 1
            /\ phase' = "WARMUP"
            /\ pc' = IF run_warmup_query(resp, elapsed) THEN "register_tools" ELSE "failed"
    /\ UNCHANGED <<environ, flags, registry, call>>

\* register_tools(server)
RegisterTools ==
    /\ pc = "register_tools"
    /\ registry' = register_tools(flags)
    /\ phase' = "TOOLS_REGISTERED"
    /\ pc' = "server_run"
    /\ UNCHANGED <<environ, flags, warmupCalls, call>>

\* server.run(transport="streamable-http")
ServerRun ==
    /\ pc = "server_run"
    /\ phase' = "SERVING"
    /\ pc' = "serving"
    /\ UNCHANGED <<environ, flags, warmupCalls, registry, call>>

Next == LoadFlags \/ InitializeTools \/ RegisterTools \/ ServerRun

Spec == Init /\ [][Next]_vars

\* The main program runs to its end: no step of it is postponed forever.
FairSpec == Spec /\ WF_vars(Next)

-----------------------------------------------------------------------------
(* git_cli_tools/git_cli_services.py: the process executor *)

\* timeout=30 of subprocess.run
TimeoutSeconds == 30

\* Wall-clock seconds a child needs to finish.
Durations == {29, 31}

\* What happens to the child process subprocess.run starts: it cannot be
\* launched (str(e) is msg), or it runs for duration seconds and would exit
\* with returncode, having written stdout and stderr.
LaunchErrors ==
    { [kind |-> "launch_error", exc |-> "FileNotFoundError",
       msg |-> "[Errno 2] No such file or directory: 'gh'",
       duration |-> 0, returncode |-> 0, stdout |-> "", stderr |-> ""],
      [kind |-> "launch_error", exc |-> "PermissionError",
       msg |-> "[Errno 13] Permission denied: 'gh'",
       duration |-> 0, returncode |-> 0, stdout |-> "", stderr |-> ""] }

BadCwdError ==
    [kind |-> "launch_error", exc |-> "NotADirectoryError",
     msg |-> "[Errno 20] Not a directory: '/etc/hosts'",
     duration |-> 0, returncode |-> 0, stdout |-> "", stderr |-> ""]

ChildRuns ==
    [kind : {"run"}, exc : {""}, msg : {""}, duration : Durations,
     returncode : {0, 1}, stdout : {"", "ok\n"}, stderr : {"", "err"}]

\* A child that is never started.
NoChild ==
    [kind |-> "none", exc |-> "", msg |-> "",
     duration |-> 0, returncode |-> 0, stdout |-> "", stderr |-> ""]

\* Working directories a caller passes as repo_path.
RepoPaths == {".", "/etc/hosts"}

\* The children a spawn in working directory cwd can give.
Children(cwd) ==
    IF cwd = "/etc/hosts" THEN {BadCwdError}
    ELSE LaunchErrors
         \cup {c \in ChildRuns : c.duration > TimeoutSeconds => c.returncode = 0 /\ c.stderr = ""}

\* The classes caught by "except Exception".
ExceptionClasses ==
    {"FileNotFoundError", "PermissionError", "NotADirectoryError", "TimeoutExpired"}

\* subprocess.run(command, cwd=cwd, capture_output=True, text=True, timeout=t):
\* raises what the launch raises, kills the child and raises TimeoutExpired
\* when it outlives t, else returns the CompletedProcess.
subprocess_run(command, cwd, child, t) ==
    IF child.kind = "launch_error"
    THEN [exc |-> child.exc, msg |-> child.msg, killed |-> FALSE,
          returncode |-> 0, stdout |-> "", stderr |-> ""]
    ELSE IF child.duration > t
    THEN [exc |-> "TimeoutExpired",
          msg |-> "Command 'gh' timed out after " \o ToString(t) \o " seconds",
          killed |-> TRUE, returncode |-> 0, stdout |-> "", stderr |-> ""]
    ELSE [exc |-> "", msg |-> "", killed |-> FALSE,
          returncode |-> child.returncode, stdout |-> child.stdout, stderr |-> child.stderr]

Envelope(success, output, error, return_code) ==
    [success |-> success, output |-> output, error |-> error, return_code |-> return_code]

\* What a call of a function comes to: it returns value, or it raises exc.
Returns(v, killed) == [raised |-> FALSE, exc |-> "", value |-> v, killed |-> killed]

Raises(e, killed) ==
    [raised |-> TRUE, exc |-> e, value |-> Envelope(FALSE, "", "", 0), killed |-> killed]

\* _run_command without the final "except Exception" clause.
_run_command_no_catch_all(command, cwd, child) ==
    LET r == subprocess_run(command, cwd, child, TimeoutSeconds)
    IN  IF r.exc = ""
        THEN Returns(Envelope(r.returncode = 0, r.stdout, r.stderr, r.returncode), r.killed)
        ELSE IF r.exc = "TimeoutExpired"
        THEN Returns(Envelope(FALSE, "", "Command timed out after 30 seconds", -1), r.killed)
        ELSE Raises(r.exc, r.killed)

\* _run_command with "except Exception" placed before "except TimeoutExpired".
_run_command_catch_all_first(command, cwd, child) ==
    LET r == subprocess_run(command, cwd, child, TimeoutSeconds)
    IN  IF r.exc = ""
        THEN Returns(Envelope(r.returncode = 0, r.stdout, r.stderr, r.returncode), r.killed)
        ELSE IF r.exc \in ExceptionClasses
        THEN Returns(Envelope(FALSE, "", r.msg, -1), r.killed)
        ELSE Raises(r.exc, r.killed)

\* _run_command with success set whenever the child completes.
_run_command_success_on_completion(command, cwd, child) ==
    LET r == subprocess_run(command, cwd, child, TimeoutSeconds)
    IN  IF r.exc = ""
        THEN Returns(Envelope(TRUE, r.stdout, r.stderr, r.returncode), r.killed)
        ELSE IF r.exc = "TimeoutExpired"
        THEN Returns(Envelope(FALSE, "", "Command timed out after 30 seconds", -1), r.killed)
        ELSE IF r.exc \in ExceptionClasses
        THEN Returns(Envelope(FALSE, "", r.msg, -1), r.killed)
        ELSE Raises(r.exc, r.killed)

\* _run_command(command, cwd)
_run_command(command, cwd, child) ==
    LET r == subprocess_run(command, cwd, child, TimeoutSeconds)
    IN  IF r.exc = ""
        THEN Returns(Envelope(r.returncode = 0, r.stdout, r.stderr, r.returncode), r.killed)
        ELSE IF r.exc = "TimeoutExpired"
        THEN Returns(Envelope(FALSE, "", "Command timed out after 30 seconds", -1), r.killed)
        ELSE IF r.exc \in ExceptionClasses
        THEN Returns(Envelope(FALSE, "", r.msg, -1), r.killed)
        ELSE Raises(r.exc, r.killed)

-----------------------------------------------------------------------------
(* git_cli_tools/git_cli_services.py: the command builders *)

\* Most parameters of one call that differ from their defaults.
MaxNonDefault == 2

\* Longest label list.
MaxLabels == 2

\* limit: int = 30
DefaultLimit == 30

\* An Optional[list[str]]: None, or a list.
NoneList == [isNone |-> TRUE, items |-> <<>>]

List(items) == [isNone |-> FALSE, items |-> items]

\* Truthiness of an Optional[list]: None and [] are falsy.
ListTruthy(l) == ~ l.isNone /\ l.items # <<>>

\* Strings a caller passes for an optional string parameter.
StrArgs == {"", "octocat", "--label"}

LabelArgs == {List(l) : l \in SeqsUpTo({"bug", "feature", "--label"}, MaxLabels)}

JsonArgs == {List(<<>>), List(<<"number">>), List(<<"number", "title">>), List(<<"--label">>)}

LimitArgs == {0, 100}

\* Optional[bool] as Python writes it.
DraftArgs == {"True", "False"}

RECURSIVE SubsetsUpTo(_, _)
\* The subsets of S with at most n elements.
SubsetsUpTo(S, n) ==
    IF n = 0 THEN {{}}
    ELSE LET smaller == SubsetsUpTo(S, n - 1)
         IN  smaller \cup {T \cup {x} : T \in smaller, x \in S}

\* The values of a parameter in a call that sets the parameters in S.
Arg(S, name, values, default) == IF name \in S THEN values ELSE {default}

IssueListParams == {"assignee", "author", "jq", "json_fields", "label", "limit",
                    "mention", "milestone", "search", "state"}

IssueListArgs ==
    UNION { [repo_path : RepoPaths,
             assignee : Arg(S, "assignee", StrArgs, None),
             author : Arg(S, "author", StrArgs, None),
             jq : Arg(S, "jq", StrArgs, None),
             json_fields : Arg(S, "json_fields", JsonArgs, NoneList),
             label : Arg(S, "label", LabelArgs, NoneList),
             limit : Arg(S, "limit", LimitArgs, DefaultLimit),
             mention : Arg(S, "mention", StrArgs, None),
             milestone : Arg(S, "milestone", StrArgs, None),
             search : Arg(S, "search", StrArgs, None),
             state : Arg(S, "state", {"closed", "all"}, "open")]
            : S \in SubsetsUpTo(IssueListParams, MaxNonDefault) }

IssueViewArgs ==
    [issue_identifier : {"", "42", "--label"}, repo_path : RepoPaths,
     comments : BOOLEAN, jq : {None, "", ".title"},
     json_fields : {NoneList, List(<<>>), List(<<"number", "title">>)}]

PrListParams == {"assignee", "author", "base", "draft", "head", "jq", "json_fields",
                 "label", "limit", "search", "state"}

PrListArgs ==
    UNION { [repo_path : RepoPaths,
             assignee : Arg(S, "assignee", StrArgs, None),
             author : Arg(S, "author", StrArgs, None),
             base : Arg(S, "base", StrArgs, None),
             draft : Arg(S, "draft", DraftArgs, None),
             head : Arg(S, "head", StrArgs \cup {"--draft"}, None),
             jq : Arg(S, "jq", StrArgs, None),
             json_fields : Arg(S, "json_fields", JsonArgs, NoneList),
             label : Arg(S, "label", LabelArgs, NoneList),
             limit : Arg(S, "limit", LimitArgs, DefaultLimit),
             search : Arg(S, "search", StrArgs, None),
             state : Arg(S, "state", {"closed", "merged", "all"}, "open")]
            : S \in SubsetsUpTo(PrListParams, MaxNonDefault) }

PrViewArgs ==
    [pr_identifier : {None, "42", "--comments"}, repo_path : RepoPaths,
     comments : BOOLEAN, jq : {None, ".title"},
     json_fields : {NoneList, List(<<"number", "title">>)},
     repo : {None, "", "owner/repo"}]

PrDiffArgs ==
    [pr_identifier : {None, "", "42", "--patch"}, repo_path : RepoPaths,
     color : {"auto", "always", "never"}, name_only : BOOLEAN, patch : BOOLEAN]

RECURSIVE join(_, _)
\* sep.join(items)
join(sep, items) ==
    IF items = <<>> THEN ""
    ELSE IF Len(items) = 1 THEN items[1]
    ELSE items[1] \o sep \o join(sep, Tail(items))

\* str(n) of an int
str(n) == ToString(n)

\* if value: command.extend([flag, value])
StrFlag(flag, value) == IF StrTruthy(value) THEN <<flag, value>> ELSE <<>>

\* if flagged: command.append(flag)
BoolFlag(flag, flagged) == IF flagged THEN <<flag>> ELSE <<>>

\* if json_fields: command.extend(["--json", ",".join(json_fields)])
JsonFlag(json_fields) ==
    IF ListTruthy(json_fields) THEN <<"--json", join(",", json_fields.items)>> ELSE <<>>

RECURSIVE LabelTokens_reversed(_)
\* The label loop run over the list backwards.
LabelTokens_reversed(items) ==
    IF items = <<>> THEN <<>>
    ELSE LabelTokens_reversed(Tail(items)) \o <<"--label", Head(items)>>

RECURSIVE LabelTokens(_)
\* for lbl in label: command.extend(["--label", lbl])
LabelTokens(items) ==
    IF items = <<>> THEN <<>>
    ELSE <<"--label", Head(items)>> \o LabelTokens(Tail(items))

\* if label: for lbl in label: ...
LabelFlag(label) == IF ListTruthy(label) THEN LabelTokens(label.items) ELSE <<>>

\* The limit test without its default: the flag is always added.
LimitFlag_always(limit) == <<"--limit", str(limit)>>

\* if limit != 30: command.extend(["--limit", str(limit)])
LimitFlag(limit) == IF limit # DefaultLimit THEN <<"--limit", str(limit)>> ELSE <<>>

\* if state != "open": command.extend(["--state", state])
StateFlag(state) == IF state # "open" THEN <<"--state", state>> ELSE <<>>

\* The draft test written "if draft:", which takes False for unset.
DraftFlag_truthiness(draft) == IF draft = "True" THEN <<"--draft">> ELSE <<>>

\* if draft is not None: "--draft" if draft else "--draft=false"
DraftFlag(draft) ==
    IF draft = None THEN <<>>
    ELSE IF draft = "True" THEN <<"--draft">> ELSE <<"--draft=false">>

\* if color != "auto": command.extend(["--color", color])
ColorFlag(color) == IF color # "auto" THEN <<"--color", color>> ELSE <<>>

\* if pr_identifier: command.append(pr_identifier)
Identifier(pr_identifier) == IF StrTruthy(pr_identifier) THEN <<pr_identifier>> ELSE <<>>

\* The command git_issue_list builds.
issue_list_command(a) ==
    <<"gh", "issue", "list">>
    \o StrFlag("--assignee", a.assignee)
    \o StrFlag("--author", a.author)
    \o StrFlag("--jq", a.jq)
    \o JsonFlag(a.json_fields)
    \o LabelFlag(a.label)
    \o LimitFlag(a.limit)
    \o StrFlag("--mention", a.mention)
    \o StrFlag("--milestone", a.milestone)
    \o StrFlag("--search", a.search)
    \o StateFlag(a.state)

\* The command git_issue_view builds.
issue_view_command(a) ==
    <<"gh", "issue", "view", a.issue_identifier>>
    \o BoolFlag("--comments", a.comments)
    \o StrFlag("--jq", a.jq)
    \o JsonFlag(a.json_fields)

\* pr_list_command with the draft test moved below the head test.
pr_list_command_draft_after_head(a) ==
    <<"gh", "pr", "list">>
    \o StrFlag("--assignee", a.assignee)
    \o StrFlag("--author", a.author)
    \o StrFlag("--base", a.base)
    \o StrFlag("--head", a.head)
    \o DraftFlag(a.draft)
    \o StrFlag("--jq", a.jq)
    \o JsonFlag(a.json_fields)
    \o LabelFlag(a.label)
    \o LimitFlag(a.limit)
    \o StrFlag("--search", a.search)
    \o StateFlag(a.state)

\* The command git_pr_list builds.
pr_list_command(a) ==
    <<"gh", "pr", "list">>
    \o StrFlag("--assignee", a.assignee)
    \o StrFlag("--author", a.author)
    \o StrFlag("--base", a.base)
    \o DraftFlag(a.draft)
    \o StrFlag("--head", a.head)
    \o StrFlag("--jq", a.jq)
    \o JsonFlag(a.json_fields)
    \o LabelFlag(a.label)
    \o LimitFlag(a.limit)
    \o StrFlag("--search", a.search)
    \o StateFlag(a.state)

\* The command git_pr_view builds.
pr_view_command(a) ==
    <<"gh", "pr", "view">>
    \o Identifier(a.pr_identifier)
    \o BoolFlag("--comments", a.comments)
    \o StrFlag("--jq", a.jq)
    \o JsonFlag(a.json_fields)
    \o StrFlag("--repo", a.repo)

\* The command git_pr_diff builds.
pr_diff_command(a) ==
    <<"gh", "pr", "diff">>
    \o Identifier(a.pr_identifier)
    \o ColorFlag(a.color)
    \o BoolFlag("--name-only", a.name_only)
    \o BoolFlag("--patch", a.patch)

-----------------------------------------------------------------------------
(* git_cli_tools/git_cli_services.py: the tools *)

\* The record of one call of a CLI tool: its arguments, the command built,
\* the number of children spawned, the child, and how _run_command ended.
CliCall(tool, a, command, spawns, child, r) ==
    [tool |-> tool, args |-> a, command |-> command, spawns |-> spawns,
     child |-> child, killed |-> r.killed, raised |-> r.raised, exc |-> r.exc,
     result |-> r.value]

\* git_issue_list running the command a second time when it failed.
git_issue_list_retrying(a, child) ==
    LET command == issue_list_command(a)
        first == _run_command(command, a.repo_path, child)
    IN  IF first.value.success
        THEN CliCall("git_issue_list", a, command, 1, child, first)
        ELSE CliCall("git_issue_list", a, command, 2, child,
                     _run_command(command, a.repo_path, child))

git_issue_list(a, child) ==
    LET command == issue_list_command(a)
    IN  CliCall("git_issue_list", a, command, 1, child,
                _run_command(command, a.repo_path, child))

git_issue_view(a, child) ==
    IF ~ StrTruthy(a.issue_identifier)
    THEN CliCall("git_issue_view", a, <<>>, 0, NoChild,
                 Returns(Envelope(FALSE, "",
                                  "issue_identifier is required (e.g., issue number or URL)",
                                  -1), FALSE))
    ELSE LET command == issue_view_command(a)
         IN  CliCall("git_issue_view", a, command, 1, child,
                     _run_command(command, a.repo_path, child))

git_pr_list(a, child) ==
    LET command == pr_list_command(a)
    IN  CliCall("git_pr_list", a, command, 1, child,
                _run_command(command, a.repo_path, child))

git_pr_view(a, child) ==
    LET command == pr_view_command(a)
    IN  CliCall("git_pr_view", a, command, 1, child,
                _run_command(command, a.repo_path, child))

git_pr_diff(a, child) ==
    LET command == pr_diff_command(a)
    IN  CliCall("git_pr_diff", a, command, 1, child,
                _run_command(command, a.repo_path, child))

\* The transport calls a registered tool when it is serving and idle.
Callable(tool) == pc = "serving" /\ call = Idle /\ tool \in registry

GitIssueList ==
    /\ Callable("git_issue_list")
    /\ \E a \in IssueListArgs : \E child \in Children(a.repo_path) :
          call' = git_issue_list(a, child)
    /\ UNCHANGED <<environ, flags, pc, phase, warmupCalls, registry>>

GitIssueView ==
    /\ Callable("git_issue_view")
    /\ \E a \in IssueViewArgs : \E child \in Children(a.repo_path) :
          call' = git_issue_view(a, child)
    /\ UNCHANGED <<environ, flags, pc, phase, warmupCalls, registry>>

GitPrList ==
    /\ Callable("git_pr_list")
    /\ \E a \in PrListArgs : \E child \in Children(a.repo_path) :
          call' = git_pr_list(a, child)
    /\ UNCHANGED <<environ, flags, pc, phase, warmupCalls, registry>>

GitPrView ==
    /\ Callable("git_pr_view")
    /\ \E a \in PrViewArgs : \E child \in Children(a.repo_path) :
          call' = git_pr_view(a, child)
    /\ UNCHANGED <<environ, flags, pc, phase, warmupCalls, registry>>

GitPrDiff ==
    /\ Callable("git_pr_diff")
    /\ \E a \in PrDiffArgs : \E child \in Children(a.repo_path) :
          call' = git_pr_diff(a, child)
    /\ UNCHANGED <<environ, flags, pc, phase, warmupCalls, registry>>

\* The transport hands the outcome of the call to the caller.
Respond ==
    /\ pc = "serving"
    /\ call # Idle
    /\ call' = Idle
    /\ UNCHANGED <<environ, flags, pc, phase, warmupCalls, registry>>

\* A process started with only the version-control group enabled.
GitCliEnvironment ==
    [ENABLE_DATA_TOOLS |-> None, ENABLE_FABRIC_RTI_TOOLS |-> None,
     ENABLE_GIT_CLI_TOOLS |-> "true", ENABLE_INSTRUCTION_TOOLS |-> None,
     CLUSTER_URL |-> None, DATABASE_NAME |-> None]

CliInit == Init /\ environ = GitCliEnvironment

CliNext ==
    \/ Next
    \/ GitIssueList \/ GitIssueView \/ GitPrList \/ GitPrView \/ GitPrDiff
    \/ Respond

CliSpec == CliInit /\ [][CliNext]_vars

-----------------------------------------------------------------------------
(* fabric_rti_tools/fabric_rti_services.py: the tools *)

\* Names a caller passes as materialized_view_name.
ViewNames == {"orders", "visits"}

\* The result of a tool call that raised.
NoResult == [raised |-> TRUE]

\* The record of one call of a query tool: its arguments, what the backend
\* did, the query and the language it was sent in, and how the call ended.
QueryCall(tool, a, resp, r, mapping) ==
    [tool |-> tool, args |-> a, resp |-> resp,
     query |-> r.query, query_language |-> r.query_language,
     raised |-> r.raised, exc |-> r.exc,
     result |-> IF r.raised THEN NoResult ELSE mapping]

\* len(data) if data and isinstance(data, list) else 0
record_count(data) == IF data # <<>> THEN Len(data) ELSE 0

fabric_rti_run_query_and_count_records(a, resp, elapsed) ==
    LET r == _run_query(a.query, a.query_language, resp, elapsed)
    IN  QueryCall("fabric_rti_run_query_and_count_records", a, resp, r,
                  [record_count |-> record_count(r.data),
                   elapsed_seconds |-> r.elapsed_seconds])

fabric_rti_run_query_and_get_results(a, resp, elapsed) ==
    LET r == _run_query(a.query, a.query_language, resp, elapsed)
    IN  QueryCall("fabric_rti_run_query_and_get_results", a, resp, r,
                  [results |-> r.data, elapsed_seconds |-> r.elapsed_seconds])

\* mv_schema_query without its last line.
mv_schema_query_unordered(materialized_view_name) ==
    <<".show materialized-view ", materialized_view_name, " schema as json",
      "| project mv_schema = todynamic(Schema).OrderedColumns",
      "| mv-expand mv_schema",
      "| project ColumnName = tostring(mv_schema.Name), ColumnType = tostring(mv_schema.Type)">>

\* The text of the schema query for a view, in its parts.
mv_schema_query(materialized_view_name) ==
    <<".show materialized-view ", materialized_view_name, " schema as json",
      "| project mv_schema = todynamic(Schema).OrderedColumns",
      "| mv-expand mv_schema",
      "| project ColumnName = tostring(mv_schema.Name), ColumnType = tostring(mv_schema.Type)",
      "| order by ColumnName asc">>

fabric_rti_get_materialized_view_schema(a, resp, elapsed) ==
    LET r == _run_query(mv_schema_query(a.materialized_view_name), "kql", resp, elapsed)
    IN  QueryCall("fabric_rti_get_materialized_view_schema", a, resp, r,
                  [results |-> r.data, elapsed_seconds |-> r.elapsed_seconds])

QueryArgs == [query : Queries, query_language : QueryLanguages]

FabricRtiRunQueryAndCountRecords ==
    /\ Callable("fabric_rti_run_query_and_count_records")
    /\ \E a \in QueryArgs, resp \in BackendResponses, elapsed \in ElapsedVals :
          call' = fabric_rti_run_query_and_count_records(a, resp, elapsed)
    /\ UNCHANGED <<environ, flags, pc, phase, warmupCalls, registry>>

\* fabric_rti_run_query_and_get_results is defined by the module but is not
\* registered: it is called once the module is loaded, not through the
\* registry.
FabricRtiRunQueryAndGetResults ==
    /\ pc = "serving" /\ call = Idle /\ flags["ENABLE_FABRIC_RTI_TOOLS"]
    /\ \E a \in QueryArgs, resp \in BackendResponses, elapsed \in ElapsedVals :
          call' = fabric_rti_run_query_and_get_results(a, resp, elapsed)
    /\ UNCHANGED <<environ, flags, pc, phase, warmupCalls, registry>>

FabricRtiGetMaterializedViewSchema ==
    /\ Callable("fabric_rti_get_materialized_view_schema")
    /\ \E a \in [materialized_view_name : ViewNames],
          resp \in BackendResponses, elapsed \in ElapsedVals :
          call' = fabric_rti_get_materialized_view_schema(a, resp, elapsed)
    /\ UNCHANGED <<environ, flags, pc, phase, warmupCalls, registry>>

\* A process started with only the query-backend group enabled.
FabricRtiEnvironment ==
    [ENABLE_DATA_TOOLS |-> None, ENABLE_FABRIC_RTI_TOOLS |-> "True",
     ENABLE_GIT_CLI_TOOLS |-> None, ENABLE_INSTRUCTION_TOOLS |-> None,
     CLUSTER_URL |-> "set", DATABASE_NAME |-> "set"]

QueryInit == Init /\ environ = FabricRtiEnvironment

QueryNext ==
    \/ Next
    \/ FabricRtiRunQueryAndCountRecords
    \/ FabricRtiRunQueryAndGetResults
    \/ FabricRtiGetMaterializedViewSchema
    \/ Respond

QuerySpec == QueryInit /\ [][QueryNext]_vars

-----------------------------------------------------------------------------
(* data_tools/data_services.py *)

\* Largest number of rows and of columns asked for.
MaxDim == 7

random_50_char_string == "ddgdgdgdfgdfgdfgdfgdfgdfgdfgdfgdfgdfgdfgdfg"

\* f"col_{i}"
col_name(i) == "col_" \o ToString(i)

\* f"data_{i}_{j}_{random_50_char_string}"
cell(i, j) == "data_" \o ToString(i) \o "_" \o ToString(j) \o "_" \o random_50_char_string

\* range(n) as a set
range(n) == 0..(n - 1)

\* The i of a column name.
col_index(name, cols) == CHOOSE i \in range(cols) : col_name(i) = name

\* generate_row_data with the two indices of a cell exchanged.
generate_row_data_swapped_indices(rows, cols) ==
    [j1 \in 1..rows |->
        [name \in {col_name(i) : i \in range(cols)} |->
            cell(j1 - 1, col_index(name, cols))]]

\* generate_columnar_data(rows, cols): a dict from column name to the list of
\* the column's cells; the list index j of Python is j1 - 1.
generate_columnar_data(rows, cols) ==
    [name \in {col_name(i) : i \in range(cols)} |->
        [j1 \in 1..rows |-> cell(col_index(name, cols), j1 - 1)]]

\* generate_row_data(rows, cols): a list of dicts from column name to cell.
generate_row_data(rows, cols) ==
    [j1 \in 1..rows |->
        [name \in {col_name(i) : i \in range(cols)} |->
            cell(col_index(name, cols), j1 - 1)]]

\* The record of one call of a data tool.
DataCall(tool, a, result) == [tool |-> tool, args |-> a, result |-> result]

DataArgs == [rows : 0..MaxDim, cols : 0..MaxDim]

GenerateColumnarData ==
    /\ Callable("generate_columnar_data")
    /\ \E a \in DataArgs :
          call' = DataCall("generate_columnar_data", a, generate_columnar_data(a.rows, a.cols))
    /\ UNCHANGED <<environ, flags, pc, phase, warmupCalls, registry>>

GenerateRowData ==
    /\ Callable("generate_row_data")
    /\ \E a \in DataArgs :
          call' = DataCall("generate_row_data", a, generate_row_data(a.rows, a.cols))
    /\ UNCHANGED <<environ, flags, pc, phase, warmupCalls, registry>>

\* A process started with only the data group enabled.
DataEnvironment ==
    [ENABLE_DATA_TOOLS |-> "true", ENABLE_FABRIC_RTI_TOOLS |-> None,
     ENABLE_GIT_CLI_TOOLS |-> None, ENABLE_INSTRUCTION_TOOLS |-> None,
     CLUSTER_URL |-> None, DATABASE_NAME |-> None]

DataInit == Init /\ environ = DataEnvironment

DataNext == Next \/ GenerateColumnarData \/ GenerateRowData \/ Respond

DataSpec == DataInit /\ [][DataNext]_vars

-----------------------------------------------------------------------------
(* Startup properties *)

OnlyFabricRti == [k \in FlagKeys |-> k = "ENABLE_FABRIC_RTI_TOOLS"]

PhaseRank(p) ==
    CASE p = "UNINITIALIZED" -> 0
      [] p = "FLAGS_LOADED" -> 1
      [] p = "WARMUP" -> 2
      [] p = "TOOLS_REGISTERED" -> 3
      [] p = "SERVING" -> 4

\* C1: every registered tool belongs to exactly one group and that group's
\* flag is true, so no tool of a disabled group is registered; with all four
\* flags false the registered set is empty.
RegistryMatchesFlags ==
    /\ \A t \in registry :
          /\ Cardinality({k \in FlagKeys : t \in GroupTools(k)}) = 1
          /\ \A k \in FlagKeys : t \in GroupTools(k) => flags[k]
    /\ (pc \in {"server_run", "serving"} /\ flags = NoFlags => registry = {})

\* C1 witness: registration has run with the version-control group enabled
\* and the data group disabled.
RegistryMatchesFlagsWitness ==
    /\ phase = "TOOLS_REGISTERED"
    /\ flags["ENABLE_GIT_CLI_TOOLS"] /\ ~ flags["ENABLE_DATA_TOOLS"]
    /\ registry # {}

\* C2: with only the query-backend flag true, startup registers exactly the
\* three query tools and has made exactly one warmup call.
OnlyQueryBackendRegistersThreeTools ==
    (pc \in {"server_run", "serving"} /\ flags = OnlyFabricRti)
        => /\ registry = {"fabric_rti_run_query_and_count_records",
                          "fabric_rti_run_query_and_get_results",
                          "fabric_rti_get_materialized_view_schema"}
           /\ warmupCalls = 1

MissingBackendConfigIsFatalForItsGroupOnly ==
    /\ [](( flags["ENABLE_FABRIC_RTI_TOOLS"]
           /\ (environ["CLUSTER_URL"] \in {None, ""} \/ environ["DATABASE_NAME"] \in {None, ""}) )
            => /\ phase \notin {"WARMUP", "TOOLS_REGISTERED", "SERVING"}
               /\ registry = {}
               /\ pc \in {"initialize_tools", "failed"})
    /\ [](pc # "import_config" /\ ~ flags["ENABLE_FABRIC_RTI_TOOLS"] => pc # "failed")
    /\ ((pc = "initialize_tools" /\ ~ flags["ENABLE_FABRIC_RTI_TOOLS"])
            ~> (phase = "SERVING" /\ registry = register_tools(flags)))

\* C4 witness: startup has failed for want of DATABASE_NAME.
MissingBackendConfigWitness ==
    /\ pc = "failed"
    /\ flags["ENABLE_FABRIC_RTI_TOOLS"]
    /\ StrTruthy(environ["CLUSTER_URL"]) /\ ~ StrTruthy(environ["DATABASE_NAME"])

\* A process without CLUSTER_URL and DATABASE_NAME that serves the
\* version-control tools.
ServingWithoutBackendConfig ==
    /\ phase = "SERVING"
    /\ environ["CLUSTER_URL"] = None /\ environ["DATABASE_NAME"] = None
    /\ registry = GitCliTools

-----------------------------------------------------------------------------
(* Process executor properties *)

IsCliCall == call.tool \in GitCliTools

\* C5: _run_command never raises: whatever the spawn does, the call returns
\* an envelope with exactly the fields success, output, error and return_code;
\* when the launch fails other than by timeout the envelope is success=false,
\* output="", return_code=-1 and error is the failure's description.
ExecutorNeverPropagates ==
    (IsCliCall /\ call.spawns = 1)
        => /\ ~ call.raised
           /\ DOMAIN call.result = {"success", "output", "error", "return_code"}
           /\ call.result.success \in BOOLEAN
           /\ call.result.return_code \in Int
           /\ (call.child.kind = "launch_error"
                 => call.result = Envelope(FALSE, "", call.child.msg, -1))

\* C5 witness: a tool call whose child could not be launched.
ExecutorNeverPropagatesWitness ==
    /\ IsCliCall /\ call.spawns = 1
    /\ call.child.kind = "launch_error" /\ call.child.exc = "PermissionError"
    /\ call.result.error = "[Errno 13] Permission denied: 'gh'"

\* C6: a child that does not finish within the 30 seconds of the timeout is
\* killed and the call returns exactly success=false, output="",
\* error="Command timed out after 30 seconds", return_code=-1.
TimeoutEnvelope ==
    (IsCliCall /\ call.spawns = 1 /\ call.child.kind = "run" /\ call.child.duration > 30)
        => /\ ~ call.raised
           /\ call.killed
           /\ call.result = Envelope(FALSE, "",
                                     "Command timed out after " \o ToString(30) \o " seconds",
                                     -1)

\* C6 witness: a child that had written output when the timeout expired.
TimeoutEnvelopeWitness ==
    /\ IsCliCall /\ call.spawns = 1
    /\ call.child.kind = "run" /\ call.child.duration = 31 /\ call.child.stdout = "ok\n"
    /\ call.killed

\* C7: in every envelope a CLI tool returns, success is true exactly when the
\* return code of the envelope is 0; when the child ran to completion the
\* envelope carries its exit code, its stdout as output and its stderr as
\* error.
SuccessIffExitCodeZero ==
    IsCliCall
        => /\ ~ call.raised
           /\ (call.result.success <=> call.result.return_code = 0)
           /\ (call.spawns = 1 /\ call.child.kind = "run" /\ ~ call.killed
                 => /\ call.result.return_code = call.child.returncode
                    /\ call.result.output = call.child.stdout
                    /\ call.result.error = call.child.stderr)

\* C7 witness: exit code 0, stdout "ok\n" and empty stderr give success=true,
\* output="ok\n", error="".
SuccessIffExitCodeZeroWitness ==
    /\ IsCliCall /\ call.spawns = 1 /\ call.child.kind = "run"
    /\ call.child.returncode = 0 /\ call.child.stdout = "ok\n" /\ call.child.stderr = ""
    /\ call.result = Envelope(TRUE, "ok\n", "", 0)

\* A completed child with a non-zero exit code and output on both streams.
FailedChildEnvelope ==
    /\ IsCliCall /\ call.spawns = 1
    /\ call.result = Envelope(FALSE, "ok\n", "err", 1)

\* The early return of git_issue_view.
IssueViewRejected ==
    /\ call.tool = "git_issue_view" /\ call.spawns = 0
    /\ call.result.return_code = -1 /\ ~ call.result.success

-----------------------------------------------------------------------------
(* Command builder properties *)

Range(seq) == {seq[i] : i \in 1..Len(seq)}

\* The flag tokens of the parameters of a call that have their documented
\* default: unset, limit 30, state "open", color "auto", false.
DefaultedFlags(c) ==
    LET a == c.args
    IN  CASE c.tool = "git_issue_list" ->
               (IF a.assignee = None THEN {"--assignee"} ELSE {})
               \cup (IF a.author = None THEN {"--author"} ELSE {})
               \cup (IF a.jq = None THEN {"--jq"} ELSE {})
               \cup (IF a.json_fields.isNone THEN {"--json"} ELSE {})
               \cup (IF a.label.isNone THEN {"--label"} ELSE {})
               \cup (IF a.limit = 30 THEN {"--limit"} ELSE {})
               \cup (IF a.mention = None THEN {"--mention"} ELSE {})
               \cup (IF a.milestone = None THEN {"--milestone"} ELSE {})
               \cup (IF a.search = None THEN {"--search"} ELSE {})
               \cup (IF a.state = "open" THEN {"--state"} ELSE {})
          [] c.tool = "git_issue_view" ->
               (IF ~ a.comments THEN {"--comments"} ELSE {})
               \cup (IF a.jq = None THEN {"--jq"} ELSE {})
               \cup (IF a.json_fields.isNone THEN {"--json"} ELSE {})
          [] c.tool = "git_pr_list" ->
               (IF a.assignee = None THEN {"--assignee"} ELSE {})
               \cup (IF a.author = None THEN {"--author"} ELSE {})
               \cup (IF a.base = None THEN {"--base"} ELSE {})
               \cup (IF a.draft = None THEN {"--draft", "--draft=false"} ELSE {})
               \cup (IF a.head = None THEN {"--head"} ELSE {})
               \cup (IF a.jq = None THEN {"--jq"} ELSE {})
               \cup (IF a.json_fields.isNone THEN {"--json"} ELSE {})
               \cup (IF a.label.isNone THEN {"--label"} ELSE {})
               \cup (IF a.limit = 30 THEN {"--limit"} ELSE {})
               \cup (IF a.search = None THEN {"--search"} ELSE {})
               \cup (IF a.state = "open" THEN {"--state"} ELSE {})
          [] c.tool = "git_pr_view" ->
               (IF ~ a.comments THEN {"--comments"} ELSE {})
               \cup (IF a.jq = None THEN {"--jq"} ELSE {})
               \cup (IF a.json_fields.isNone THEN {"--json"} ELSE {})
               \cup (IF a.repo = None THEN {"--repo"} ELSE {})
          [] c.tool = "git_pr_diff" ->
               (IF a.color = "auto" THEN {"--color"} ELSE {})
               \cup (IF ~ a.name_only THEN {"--name-only"} ELSE {})
               \cup (IF ~ a.patch THEN {"--patch"} ELSE {})

\* The texts a call passes as parameter values: each can become a token of
\* the command as it is (the json field list after joining).
SuppliedValues(c) ==
    LET a == c.args
    IN  CASE c.tool = "git_issue_list" ->
               {a.assignee, a.author, a.jq, a.mention, a.milestone, a.search, a.state}
               \cup Range(a.label.items) \cup {join(",", a.json_fields.items)}
          [] c.tool = "git_issue_view" ->
               {a.issue_identifier, a.jq, join(",", a.json_fields.items)}
          [] c.tool = "git_pr_list" ->
               {a.assignee, a.author, a.base, a.head, a.jq, a.search, a.state}
               \cup Range(a.label.items) \cup {join(",", a.json_fields.items)}
          [] c.tool = "git_pr_view" ->
               {a.pr_identifier, a.jq, a.repo, join(",", a.json_fields.items)}
          [] c.tool = "git_pr_diff" ->
               {a.pr_identifier, a.color}

\* C9 as stated: the flag token of a parameter that has its documented
\* default occurs nowhere in the command, whatever the other parameters are.
DefaultFlagOccursNowhere ==
    (IsCliCall /\ call.spawns = 1)
        => \A f \in DefaultedFlags(call) : f \notin Range(call.command)

\* C9: the flag token of a parameter that has its documented default occurs
\* nowhere in the command, unless the caller passed that very text as the
\* value of another parameter.
DefaultFlagOmitted ==
    (IsCliCall /\ call.spawns = 1)
        => \A f \in DefaultedFlags(call) \ SuppliedValues(call) :
              f \notin Range(call.command)

\* C9 witness: an issue-list call with limit and state at their defaults and
\* two other parameters set.
DefaultFlagOmittedWitness ==
    /\ call.tool = "git_issue_list"
    /\ call.args.limit = 30 /\ call.args.state = "open"
    /\ call.command = <<"gh", "issue", "list", "--assignee", "octocat", "--label", "bug">>

\* The positions of a token in a command.
Occurrences(command, token) == {i \in 1..Len(command) : command[i] = token}

\* The labels of a call: none for an unset list.
Labels(c) == c.args.label.items

\* Exactly n = Len(labels) occurrences of --label, the k-th immediately
\* followed by the k-th label.
LabelOccurrencesMatch(command, labels) ==
    LET occ == Occurrences(command, "--label")
    IN  /\ Cardinality(occ) = Len(labels)
        /\ \A i \in occ :
              /\ i < Len(command)
              /\ command[i + 1] = labels[Cardinality({j \in occ : j <= i})]

\* The command holds, side by side, --label l1 ... --label ln.
LabelRunPresent(command, labels) ==
    \E start \in 0..Len(command) :
        /\ start + 2 * Len(labels) <= Len(command)
        /\ \A k \in 1..Len(labels) :
              /\ command[start + 2 * k - 1] = "--label"
              /\ command[start + 2 * k] = labels[k]

IsListCall == call.tool \in {"git_issue_list", "git_pr_list"}

\* C10 as stated: for a label list of length n the command has exactly n
\* occurrences of --label, each immediately followed by one label, in input
\* order.
LabelFlagCountIsListLength ==
    IsListCall => LabelOccurrencesMatch(call.command, Labels(call))

\* C10: for a label list of length n the command holds the 2n consecutive
\* tokens --label l1 ... --label ln in input order (none for an empty or unset
\* list); when no parameter value, a label included, is itself the text
\* --label, these are the only occurrences of --label: exactly n, each
\* immediately followed by its label.
LabelFlagRepeatedInOrder ==
    IsListCall
        => /\ LabelRunPresent(call.command, Labels(call))
           /\ ("--label" \notin SuppliedValues(call)
                 => LabelOccurrencesMatch(call.command, Labels(call)))

\* C10 witness: a pr-list call with two different labels and a limit.
LabelFlagRepeatedInOrderWitness ==
    /\ call.tool = "git_pr_list"
    /\ Labels(call) = <<"feature", "bug">>
    /\ call.command = <<"gh", "pr", "list", "--label", "feature", "--label", "bug",
                        "--limit", "100">>

-----------------------------------------------------------------------------
(* Query dispatcher properties *)

IsQueryCall == call.tool \in FabricRtiTools

\* C8: when the backend raises while executing the query, the call of a
\* query tool ends in that fault and returns no mapping; a returned mapping,
\* one with record_count 0 or with no rows included, occurs only when the
\* backend executed the query without error.
BackendFaultsPropagate ==
    IsQueryCall
        => /\ (call.resp.kind = "raise"
                 => call.raised /\ call.exc = call.resp.exc /\ call.result = NoResult)
           /\ (~ call.raised => call.resp.kind = "result" /\ call.result # NoResult)

\* C8 witness: a count call that ended in the backend's fault.
BackendFaultsPropagateWitness ==
    /\ call.tool = "fabric_rti_run_query_and_count_records"
    /\ call.resp.kind = "raise" /\ call.raised /\ call.exc = "KustoServiceError"

\* A query that ran and returned zero rows.
ZeroRowsReturned ==
    /\ call.tool = "fabric_rti_run_query_and_count_records"
    /\ ~ call.raised /\ call.result.record_count = 0

-----------------------------------------------------------------------------
(* Tri-state draft *)

\* The command with the tokens tokens put in after its first at tokens.
InsertedAt(command, at, tokens) ==
    SubSeq(command, 1, at) \o tokens \o SubSeq(command, at + 1, Len(command))

\* The token the draft parameter stands for: one bare --draft for true, one
\* --draft=false for false, none when unset.
DraftToken(draft) ==
    CASE draft = "True" -> <<"--draft">>
      [] draft = "False" -> <<"--draft=false">>
      [] draft = None -> <<>>

\* C11: in pr-list draft=true adds exactly the one token --draft, draft=false
\* exactly the one token --draft=false and draft unset no token: the command
\* is the command of the same call without draft, with that token put in;
\* with draft unset a draft token is in the command only as the value a
\* caller gave another parameter. This holds whatever the other parameters
\* are.
DraftIsTriState ==
    call.tool = "git_pr_list"
        => LET undrafted == pr_list_command([call.args EXCEPT !.draft = None])
           IN  /\ Len(call.command) = Len(undrafted) + Len(DraftToken(call.args.draft))
               /\ \E at \in 3..Len(undrafted) :
                     call.command = InsertedAt(undrafted, at, DraftToken(call.args.draft))
               /\ (call.args.draft = None
                     => \A i \in 1..Len(call.command) :
                           call.command[i] \in {"--draft", "--draft=false"}
                               => i > 3 /\ call.command[i] \in SuppliedValues(call))

\* C11 witness: draft=false next to a head branch whose name is the text of
\* the draft flag.
DraftIsTriStateWitness ==
    /\ call.tool = "git_pr_list"
    /\ call.args.draft = "False" /\ call.args.head = "--draft"
    /\ call.command = <<"gh", "pr", "list", "--draft=false", "--head", "--draft">>

\* A pr-list call for drafts only.
DraftOnly ==
    /\ call.tool = "git_pr_list"
    /\ call.command = <<"gh", "pr", "list", "--draft">>

-----------------------------------------------------------------------------
(* Flag order *)

\* The documented order of the parameters of the two list tools.
IssueListOrder == <<"assignee", "author", "jq", "json", "label", "limit",
                    "mention", "milestone", "search", "state">>

PrListOrder == <<"assignee", "author", "base", "draft", "head", "jq", "json",
                 "label", "limit", "search", "state">>

\* A flag and its value when the value is set and not empty.
FlagAndValue(flag, value) == IF value \in {None, ""} THEN <<>> ELSE <<flag, value>>

\* The tokens one parameter of a list call stands for.
ParamTokens(name, a) ==
    CASE name = "assignee" -> FlagAndValue("--assignee", a.assignee)
      [] name = "author" -> FlagAndValue("--author", a.author)
      [] name = "base" -> FlagAndValue("--base", a.base)
      [] name = "draft" -> DraftToken(a.draft)
      [] name = "head" -> FlagAndValue("--head", a.head)
      [] name = "jq" -> FlagAndValue("--jq", a.jq)
      [] name = "json" ->
            IF a.json_fields.items = <<>> THEN <<>>
            ELSE <<"--json", join(",", a.json_fields.items)>>
      [] name = "label" ->
            [k \in 1..(2 * Len(a.label.items)) |->
                IF k % 2 = 1 THEN "--label" ELSE a.label.items[k \div 2]]
      [] name = "limit" -> IF a.limit = 30 THEN <<>> ELSE <<"--limit", ToString(a.limit)>>
      [] name = "mention" -> FlagAndValue("--mention", a.mention)
      [] name = "milestone" -> FlagAndValue("--milestone", a.milestone)
      [] name = "search" -> FlagAndValue("--search", a.search)
      [] name = "state" -> IF a.state = "open" THEN <<>> ELSE <<"--state", a.state>>

RECURSIVE TokensInOrder(_, _)
\* The tokens of the parameters named in order, one parameter after another.
TokensInOrder(order, a) ==
    IF order = <<>> THEN <<>>
    ELSE ParamTokens(Head(order), a) \o TokensInOrder(Tail(order), a)

\* C12: the command of issue-list is gh issue list followed by the tokens of
\* its set parameters in the order assignee, author, jq, json, label, limit,
\* mention, milestone, search, state, and that of pr-list is gh pr list
\* followed by assignee, author, base, draft, head, jq, json, label, limit,
\* search, state: the command is fixed by the parameter values and the order
\* of two flags does not depend on them.
FlagOrderIsFixed ==
    /\ (call.tool = "git_issue_list"
          => call.command = <<"gh", "issue", "list">> \o TokensInOrder(IssueListOrder, call.args))
    /\ (call.tool = "git_pr_list"
          => call.command = <<"gh", "pr", "list">> \o TokensInOrder(PrListOrder, call.args))

\* C12 witness: a pr-list call with draft and head both set.
FlagOrderIsFixedWitness ==
    /\ call.tool = "git_pr_list"
    /\ call.command = <<"gh", "pr", "list", "--draft", "--head", "octocat">>

\* An issue-list call with its last two parameters set.
IssueListSearchBeforeState ==
    /\ call.tool = "git_issue_list"
    /\ call.command = <<"gh", "issue", "list", "--search", "octocat", "--state", "all">>

-----------------------------------------------------------------------------
(* Language detection *)

\* The positions of the characters of a text that are not white space.
InkPositions(text) == {i \in 1..Len(text) : text[i] \notin {" ", "\n"}}

Min(S) == CHOOSE x \in S : \A y \in S : x <= y

Max(S) == CHOOSE x \in S : \A y \in S : x >= y

\* The first line of a text that is not blank, without the white space
\* around it: from the first character of the text that is not white space
\* to the last such character before the next line break.
FirstNonBlankLineTrimmed(text) ==
    LET first == Min(InkPositions(text))
        breaks == {i \in first..Len(text) : text[i] = "\n"}
        lineEnd == IF breaks = {} THEN Len(text) ELSE Min(breaks) - 1
        last == Max({i \in InkPositions(text) : i <= lineEnd})
    IN  SubSeq(text, first, last)

\* The dialect the claim gives a text: sql exactly when its first non-blank
\* line, trimmed, is the two characters "--".
MarkedAsSql(text) ==
    /\ InkPositions(text) # {}
    /\ FirstNonBlankLineTrimmed(text) = <<"-", "-">>

\* A call that leaves the dialect to the detector.
IsDetectingCall ==
    /\ call.tool \in {"fabric_rti_run_query_and_count_records",
                      "fabric_rti_run_query_and_get_results"}
    /\ call.args.query_language = None

EmptyQueryIsKql ==
    IsDetectingCall /\ call.args.query = <<>> /\ call.query_language = "kql"

\* A first line that only starts with "--" is sent as kql.
PrefixedLineIsKql ==
    IsDetectingCall /\ call.args.query = <<"-", "-", "a">> /\ call.query_language = "kql"

\* A "--" line after the first non-blank line is sent as kql.
LaterMarkerIsKql ==
    IsDetectingCall /\ call.args.query = <<"a", "\n", "-", "-">> /\ call.query_language = "kql"

\* A "--" line after blank lines, with blanks around it, is sent as sql.
IndentedMarkerIsSql ==
    IsDetectingCall /\ call.args.query = <<"\n", " ", "-", "-">> /\ call.query_language = "sql"

-----------------------------------------------------------------------------
(* Schema rows *)

\* Rows in ascending order of ColumnName.
SortedByColumnName(rows) ==
    \A i \in 1..Len(rows), j \in 1..Len(rows) :
        i < j => rows[i].ColumnName <= rows[j].ColumnName

\* A call of the schema tool that returned.
IsSchemaResult ==
    call.tool = "fabric_rti_get_materialized_view_schema" /\ ~ call.raised

\* C14 as stated: whatever the order in which the backend returns the rows,
\* the results of the schema tool are sorted ascending by ColumnName.
SchemaRowsAlwaysSorted ==
    IsSchemaResult => SortedByColumnName(call.result.results)

\* C14: the schema tool sends, as kql, a query for the view named that ends
\* with the clause "order by ColumnName asc", and returns the rows of the
\* backend as they are and in the backend's order: its results are sorted
\* ascending by ColumnName exactly when the backend returned them so, as the
\* clause asks; the tool itself does not sort.
SchemaRowsInBackendOrder ==
    IsSchemaResult
        => /\ call.query_language = "kql"
           /\ call.query[2] = call.args.materialized_view_name
           /\ call.query[Len(call.query)] = "| order by ColumnName asc"
           /\ call.result.results = call.resp.primary[1]
           /\ (SortedByColumnName(call.result.results)
                 <=> SortedByColumnName(call.resp.primary[1]))

\* C14 witness: the backend answered in order and the tool passed it on.
SchemaRowsInBackendOrderWitness ==
    /\ IsSchemaResult
    /\ call.resp.primary[1] = <<[ColumnName |-> 1], [ColumnName |-> 2]>>
    /\ call.result.results = <<[ColumnName |-> 1], [ColumnName |-> 2]>>

-----------------------------------------------------------------------------
(* Data generators *)

IsDataCall == call.tool \in DataTools

\* The columnar output for the arguments of the call.
Columnar ==
    IF call.tool = "generate_columnar_data" THEN call.result
    ELSE generate_columnar_data(call.args.rows, call.args.cols)

\* The row-wise output for the arguments of the call.
RowWise ==
    IF call.tool = "generate_row_data" THEN call.result
    ELSE generate_row_data(call.args.rows, call.args.cols)

\* A mapping of columns turned into a list of rows: as many rows as a column
\* is long.
TransposeColumns(d) ==
    LET n == IF DOMAIN d = {} THEN 0 ELSE Len(d[CHOOSE k \in DOMAIN d : TRUE])
    IN  [j \in 1..n |-> [k \in DOMAIN d |-> d[k][j]]]

\* A list of rows turned into a mapping of columns: the columns are the keys
\* of a row.
TransposeRows(l) ==
    LET keys == IF Len(l) = 0 THEN {} ELSE DOMAIN l[1]
    IN  [k \in keys |-> [j \in 1..Len(l) |-> l[j][k]]]

\* The two outputs have the shapes claimed and hold the same cells.
SameCellsTransposed ==
    LET rows == call.args.rows
        cols == call.args.cols
        names == {"col_" \o ToString(i) : i \in 0..(cols - 1)}
    IN  /\ DOMAIN Columnar = names
        /\ Cardinality(DOMAIN Columnar) = cols
        /\ \A k \in names : Len(Columnar[k]) = rows
        /\ Len(RowWise) = rows
        /\ \A j \in 1..rows :
              DOMAIN RowWise[j] = names /\ Cardinality(DOMAIN RowWise[j]) = cols
        /\ \A k \in names, j \in 1..rows : Columnar[k][j] = RowWise[j][k]

\* C15 as stated: for all rows >= 0 and cols >= 0 the two outputs have the
\* shapes claimed, hold the same cells, and transposing either gives the
\* other.
TransposeRoundTrip ==
    IsDataCall
        => /\ SameCellsTransposed
           /\ TransposeColumns(Columnar) = RowWise
           /\ TransposeRows(RowWise) = Columnar

\* C15: for all rows >= 0 and cols >= 0 the two outputs have the shapes
\* claimed and hold the same cells; transposing the columnar output gives
\* the row-wise one exactly when cols >= 1 or rows = 0 (a mapping without
\* columns does not tell the number of rows), and transposing the row-wise
\* output gives the columnar one exactly when rows >= 1 or cols = 0 (a list
\* without rows does not tell the column names).
TransposeRoundTripWhereShapeIsKept ==
    IsDataCall
        => /\ SameCellsTransposed
           /\ (TransposeColumns(Columnar) = RowWise
                 <=> (call.args.cols >= 1 \/ call.args.rows = 0))
           /\ (TransposeRows(RowWise) = Columnar
                 <=> (call.args.rows >= 1 \/ call.args.cols = 0))

\* C15 witness: two rows of three columns, generated row-wise.
TransposeRoundTripWitness ==
    /\ call.tool = "generate_row_data"
    /\ call.args = [rows |-> 2, cols |-> 3]
    /\ call.result[2]["col_1"] = "data_1_1_ddgdgdgdfgdfgdfgdfgdfgdfgdfgdfgdfgdfgdfgdfg"
    /\ TransposeRows(call.result) = Columnar

\* Columns asked for without rows.
ColumnsWithoutRows ==
    /\ call.tool = "generate_columnar_data"
    /\ call.args = [rows |-> 0, cols |-> 2]
    /\ DOMAIN call.result = {"col_0", "col_1"}

-----------------------------------------------------------------------------
(* Spawns per call *)

\* C16 as stated: every call of a CLI tool, for every input and every
\* outcome of the child, makes exactly one spawn attempt.
ExactlyOneSpawnPerCall ==
    IsCliCall => call.spawns = 1

\* C16: every call of a CLI tool makes at most one spawn attempt, whatever
\* the outcome of the child (non-zero exit, timeout, launch failure): there
\* is no retry; it makes exactly one, except that issue-view with an empty
\* issue_identifier makes none and returns success=false with return code -1.
OneSpawnUnlessIssueViewRejects ==
    IsCliCall
        => /\ call.spawns \in {0, 1}
           /\ (call.spawns = 0
                 <=> call.tool = "git_issue_view" /\ call.args.issue_identifier = "")
           /\ (call.spawns = 0
                 => call.command = <<>> /\ call.child.kind = "none"
                    /\ ~ call.result.success /\ call.result.return_code = -1)
           /\ (call.spawns = 1 => call.child.kind \in {"run", "launch_error"})

\* C16 witness: an issue-list call whose child timed out, spawned once.
OneSpawnUnlessIssueViewRejectsWitness ==
    /\ call.tool = "git_issue_list"
    /\ call.killed /\ ~ call.result.success
    /\ call.spawns = 1

\* A pr-view call without identifier spawns gh pr view for the current branch.
PrViewWithoutIdentifierSpawns ==
    /\ call.tool = "git_pr_view" /\ call.args.pr_identifier = None
    /\ call.spawns = 1 /\ call.command = <<"gh", "pr", "view">>

====
